---- MODULE Spec2Model ----
(***************************************************************************)
(* xsdata/models/enums.py: the namespace and data type registries, their   *)
(* reverse indexes, the bundled-schema lookup and the auxiliary            *)
(* enumerations, as a state machine of client calls.                       *)
(***************************************************************************)
EXTENDS Integers, Sequences, FiniteSets, TLC

VARIABLES
    STANDARD_NAMESPACES,  \* __STANDARD_NAMESPACES__: uri -> Namespace member
    XSDType,              \* __XSDType__: code -> DataType member
    files,                \* names of the files present in COMMON_SCHEMA_DIR
    call,                 \* the last completed call of the sequential client
    threads               \* the concurrent callers: pc, op, arg, result

vars == <<STANDARD_NAMESPACES, XSDType, files, call, threads>>

----------------------------------------------------------------------------
(* Python values *)

PyNone == [t |-> "NoneType"]

PyStr(s) == [t |-> "str", v |-> s]

PyRaise(exc) == [t |-> "raise", exc |-> exc]

\* bool(x) of an Optional[str]: None and "" are falsy
Truthy(x) == x.t = "str" /\ x.v # ""

\* dict.get(key): the value, or None when the key is absent
DictGet(d, key) ==
    IF key.t = "str" /\ key.v \in DOMAIN d THEN d[key.v] ELSE PyNone

\* dict.pop(key, None): the table without the key
DictWithout(d, key) ==
    [k \in DOMAIN d \ (IF key.t = "str" THEN {key.v} ELSE {}) |-> d[k]]

\* a type object, and a tuple of type objects
PyType(name) == [t |-> "type", name |-> name]

PyTuple(items) == [t |-> "tuple", items |-> items]

\* sep.join(strs)
RECURSIVE Join(_, _)
Join(sep, strs) ==
    IF Len(strs) = 0 THEN ""
    ELSE IF Len(strs) = 1 THEN strs[1]
    ELSE strs[1] \o sep \o Join(sep, Tail(strs))

UpperChars ==
    << "A", "B", "C", "D", "E", "F", "G", "H", "I", "J", "K", "L", "M",
       "N", "O", "P", "Q", "R", "S", "T", "U", "V", "W", "X", "Y", "Z" >>

LowerChars ==
    << "a", "b", "c", "d", "e", "f", "g", "h", "i", "j", "k", "l", "m",
       "n", "o", "p", "q", "r", "s", "t", "u", "v", "w", "x", "y", "z" >>

\* str.lower() of a name held as its characters
Lower(chars) ==
    [i \in DOMAIN chars |->
        IF \E j \in DOMAIN UpperChars : UpperChars[j] = chars[i]
        THEN LowerChars[CHOOSE j \in DOMAIN UpperChars : UpperChars[j] = chars[i]]
        ELSE chars[i]]

----------------------------------------------------------------------------
(* class Namespace(Enum): the declarations, names held as characters *)

NamespaceDecl(name, value) == [cls |-> "Namespace", name |-> name, value |-> value]

Namespace_XS == NamespaceDecl(<<"X", "S">>, "http://www.w3.org/2001/XMLSchema")

Namespace_XML == NamespaceDecl(<<"X", "M", "L">>, "http://www.w3.org/XML/1998/namespace")

Namespace_XSI == NamespaceDecl(<<"X", "S", "I">>, "http://www.w3.org/2001/XMLSchema-instance")

Namespace_XLINK == NamespaceDecl(<<"X", "L", "I", "N", "K">>, "http://www.w3.org/1999/xlink")

\* a variant: the line above copied, its value left unchanged
Namespace_XHTML_dup == NamespaceDecl(<<"X", "H", "T", "M", "L">>, "http://www.w3.org/1999/xlink")

Namespace_XHTML == NamespaceDecl(<<"X", "H", "T", "M", "L">>, "http://www.w3.org/1999/xhtml")

Namespace_SOAP11 ==
    NamespaceDecl(<<"S", "O", "A", "P", "1", "1">>, "http://schemas.xmlsoap.org/wsdl/soap/")

Namespace_SOAP12 ==
    NamespaceDecl(<<"S", "O", "A", "P", "1", "2">>, "http://schemas.xmlsoap.org/wsdl/soap12/")

NamespaceDecls ==
    << Namespace_XS, Namespace_XML, Namespace_XSI, Namespace_XLINK,
       Namespace_XHTML, Namespace_SOAP11, Namespace_SOAP12 >>

----------------------------------------------------------------------------
(* class DataType(Enum): value (code, local), unpacked by __init__ *)

DataTypeDecl(name, code, local) ==
    [cls |-> "DataType", name |-> name, value |-> <<code, local>>,
     code |-> code, local |-> local]

str == PyType("str")

int == PyType("int")

bool == PyType("bool")

float == PyType("float")

object == PyType("object")

Decimal == PyType("Decimal")

QName == PyType("QName")

DataType_QMAP == DataTypeDecl("QMAP", "qmap", PyTuple(<<QName, str>>))

DataType_OBJECT == DataTypeDecl("OBJECT", "object", object)

DataType_ANY_ATOMIC_TYPE == DataTypeDecl("ANY_ATOMIC_TYPE", "anyAtomicType", str)

DataType_ANY_URI == DataTypeDecl("ANY_URI", "anyURI", str)

DataType_ANY_SIMPLE_TYPE == DataTypeDecl("ANY_SIMPLE_TYPE", "anySimpleType", object)

DataType_ANY_TYPE == DataTypeDecl("ANY_TYPE", "anyType", object)

DataType_BASE == DataTypeDecl("BASE", "base", str)

DataType_BASE64_BINARY == DataTypeDecl("BASE64_BINARY", "base64Binary", str)

DataType_BOOLEAN == DataTypeDecl("BOOLEAN", "boolean", bool)

DataType_BYTE == DataTypeDecl("BYTE", "byte", int)

DataType_DATE == DataTypeDecl("DATE", "date", str)

DataType_DATE_TIME == DataTypeDecl("DATE_TIME", "dateTime", str)

\* a variant: the code misspelt
DataType_DATE_TIMESTAMP_typo == DataTypeDecl("DATE_TIMESTAMP", "dateTimestamp", str)

DataType_DATE_TIMESTAMP == DataTypeDecl("DATE_TIMESTAMP", "dateTimeStamp", str)

DataType_DAY_TIME_DURATION == DataTypeDecl("DAY_TIME_DURATION", "dayTimeDuration", str)

DataType_YEAR_MONTH_DURATION == DataTypeDecl("YEAR_MONTH_DURATION", "yearMonthDuration", str)

DataType_DECIMAL == DataTypeDecl("DECIMAL", "decimal", Decimal)

DataType_DERIVATION_CONTROL == DataTypeDecl("DERIVATION_CONTROL", "derivationControl", str)

\* a variant: double as the fixed-width float
DataType_DOUBLE_float == DataTypeDecl("DOUBLE", "double", float)

DataType_DOUBLE == DataTypeDecl("DOUBLE", "double", Decimal)

DataType_DURATION == DataTypeDecl("DURATION", "duration", str)

DataType_ENTITIES == DataTypeDecl("ENTITIES", "ENTITIES", int)

DataType_ENTITY == DataTypeDecl("ENTITY", "ENTITY", int)

DataType_FLOAT == DataTypeDecl("FLOAT", "float", float)

DataType_G_DAY == DataTypeDecl("G_DAY", "gDay", str)

DataType_G_MONTH == DataTypeDecl("G_MONTH", "gMonth", str)

DataType_G_MONTH_DAY == DataTypeDecl("G_MONTH_DAY", "gMonthDay", str)

DataType_G_YEAR == DataTypeDecl("G_YEAR", "gYear", str)

DataType_G_YEAR_MONTH == DataTypeDecl("G_YEAR_MONTH", "gYearMonth", str)

DataType_HEX_BINARY == DataTypeDecl("HEX_BINARY", "hexBinary", str)

\* a variant: ID typed like ENTITY
DataType_ID_int == DataTypeDecl("ID", "ID", int)

DataType_ID == DataTypeDecl("ID", "ID", str)

DataType_IDREF == DataTypeDecl("IDREF", "IDREF", str)

DataType_IDREFS == DataTypeDecl("IDREFS", "IDREFS", str)

DataType_INT == DataTypeDecl("INT", "int", int)

\* a variant: the code of the line above repeated
DataType_INTEGER_dup == DataTypeDecl("INTEGER", "int", int)

DataType_INTEGER == DataTypeDecl("INTEGER", "integer", int)

DataType_LANG == DataTypeDecl("LANG", "lang", str)

DataType_LANGUAGE == DataTypeDecl("LANGUAGE", "language", str)

DataType_LONG == DataTypeDecl("LONG", "long", int)

DataType_NAME == DataTypeDecl("NAME", "Name", str)

DataType_NCNAME == DataTypeDecl("NCNAME", "NCName", str)

DataType_NEGATIVE_INTEGER == DataTypeDecl("NEGATIVE_INTEGER", "negativeInteger", int)

DataType_NMTOKEN == DataTypeDecl("NMTOKEN", "NMTOKEN", str)

DataType_NMTOKENS == DataTypeDecl("NMTOKENS", "NMTOKENS", str)

DataType_NON_NEGATIVE_INTEGER == DataTypeDecl("NON_NEGATIVE_INTEGER", "nonNegativeInteger", int)

DataType_NON_POSITIVE_INTEGER == DataTypeDecl("NON_POSITIVE_INTEGER", "nonPositiveInteger", int)

DataType_NORMALIZED_STRING == DataTypeDecl("NORMALIZED_STRING", "normalizedString", str)

DataType_NOTATION == DataTypeDecl("NOTATION", "NOTATION", str)

DataType_POSITIVE_INTEGER == DataTypeDecl("POSITIVE_INTEGER", "positiveInteger", int)

DataType_QNAME == DataTypeDecl("QNAME", "QName", QName)

DataType_SHORT == DataTypeDecl("SHORT", "short", int)

DataType_SIMPLE_DERIVATION_SET == DataTypeDecl("SIMPLE_DERIVATION_SET", "simpleDerivationSet", str)

DataType_STRING == DataTypeDecl("STRING", "string", str)

DataType_TIME == DataTypeDecl("TIME", "time", str)

DataType_TOKEN == DataTypeDecl("TOKEN", "token", str)

DataType_UNSIGNED_BYTE == DataTypeDecl("UNSIGNED_BYTE", "unsignedByte", int)

DataType_UNSIGNED_INT == DataTypeDecl("UNSIGNED_INT", "unsignedInt", int)

DataType_UNSIGNED_LONG == DataTypeDecl("UNSIGNED_LONG", "unsignedLong", int)

DataType_UNSIGNED_SHORT == DataTypeDecl("UNSIGNED_SHORT", "unsignedShort", int)

DataTypeDecls ==
    << DataType_QMAP, DataType_OBJECT, DataType_ANY_ATOMIC_TYPE, DataType_ANY_URI,
       DataType_ANY_SIMPLE_TYPE, DataType_ANY_TYPE, DataType_BASE,
       DataType_BASE64_BINARY, DataType_BOOLEAN, DataType_BYTE, DataType_DATE,
       DataType_DATE_TIME, DataType_DATE_TIMESTAMP, DataType_DAY_TIME_DURATION,
       DataType_YEAR_MONTH_DURATION, DataType_DECIMAL, DataType_DERIVATION_CONTROL,
       DataType_DOUBLE, DataType_DURATION, DataType_ENTITIES, DataType_ENTITY,
       DataType_FLOAT, DataType_G_DAY, DataType_G_MONTH, DataType_G_MONTH_DAY,
       DataType_G_YEAR, DataType_G_YEAR_MONTH, DataType_HEX_BINARY, DataType_ID,
       DataType_IDREF, DataType_IDREFS, DataType_INT, DataType_INTEGER,
       DataType_LANG, DataType_LANGUAGE, DataType_LONG, DataType_NAME,
       DataType_NCNAME, DataType_NEGATIVE_INTEGER, DataType_NMTOKEN,
       DataType_NMTOKENS, DataType_NON_NEGATIVE_INTEGER,
       DataType_NON_POSITIVE_INTEGER, DataType_NORMALIZED_STRING,
       DataType_NOTATION, DataType_POSITIVE_INTEGER, DataType_QNAME,
       DataType_SHORT, DataType_SIMPLE_DERIVATION_SET, DataType_STRING,
       DataType_TIME, DataType_TOKEN, DataType_UNSIGNED_BYTE,
       DataType_UNSIGNED_INT, DataType_UNSIGNED_LONG, DataType_UNSIGNED_SHORT >>

----------------------------------------------------------------------------
(* the auxiliary enumerations *)

EnumDecl(cls, name, value) == [cls |-> cls, name |-> name, value |-> value]

FormTypeDecls ==
    << EnumDecl("FormType", "QUALIFIED", "qualified"),
       EnumDecl("FormType", "UNQUALIFIED", "unqualified") >>

ModeDecls ==
    << EnumDecl("Mode", "NONE", "none"),
       EnumDecl("Mode", "SUFFIX", "suffix"),
       EnumDecl("Mode", "INTERLEAVE", "interleave") >>

UseTypeDecls ==
    << EnumDecl("UseType", "OPTIONAL", "optional"),
       EnumDecl("UseType", "PROHIBITED", "prohibited"),
       EnumDecl("UseType", "REQUIRED", "required") >>

ProcessTypeDecls ==
    << EnumDecl("ProcessType", "LAX", "lax"),
       EnumDecl("ProcessType", "SKIP", "skip"),
       EnumDecl("ProcessType", "STRICT", "strict") >>

BindingStyleDecls ==
    << EnumDecl("BindingStyle", "RPC", "rpc"),
       EnumDecl("BindingStyle", "DOCUMENT", "document") >>

UseChoiceDecls ==
    << EnumDecl("UseChoice", "LITERAL", "literal"),
       EnumDecl("UseChoice", "ENCODED", "encoded") >>

----------------------------------------------------------------------------
(* enum.Enum: class construction, iteration, by-value call *)

\* the members, in declaration order; a declaration whose value repeats an
\* earlier one is an alias of that member, not a member
EnumMembers(decls) ==
    LET first == {i \in DOMAIN decls :
                     \A j \in 1..(i - 1) : decls[j].value # decls[i].value}
        nth(k) == CHOOSE i \in first : Cardinality({j \in first : j <= i}) = k
    IN  [k \in 1..Cardinality(first) |-> decls[nth(k)]]

\* a variant: a miss falls back to the first member
EnumCall_default(decls, value) ==
    LET members == EnumMembers(decls)
        hits == {i \in DOMAIN members : value.t = "str" /\ members[i].value = value.v}
    IN  IF hits # {} THEN members[CHOOSE i \in hits : TRUE] ELSE members[1]

\* Cls(value): the member with that value; a miss raises ValueError
EnumCall(decls, value) ==
    LET members == EnumMembers(decls)
        hits == {i \in DOMAIN members : value.t = "str" /\ members[i].value = value.v}
    IN  IF hits # {} THEN members[CHOOSE i \in hits : TRUE] ELSE PyRaise("ValueError")

\* {key: member for ...}: a later item overwrites an earlier one with its key
DictFromItems(items) ==
    LET last(k) == CHOOSE i \in DOMAIN items :
                       /\ items[i][1] = k
                       /\ \A j \in DOMAIN items : items[j][1] = k => j <= i
    IN  [k \in {items[i][1] : i \in DOMAIN items} |-> items[last(k)][2]]

----------------------------------------------------------------------------
(* Namespace *)

NamespaceMembers == EnumMembers(NamespaceDecls)

uri(self) == self.value

prefix(self) == Join("", Lower(self.name))

COMMON_SCHEMA_DIR == "/xsdata/schemas"

\* the file names the schema directory may hold
SchemaFileNames == {prefix(NamespaceDecls[i]) \o ".xsd" : i \in DOMAIN NamespaceDecls}

\* Path.as_uri() of COMMON_SCHEMA_DIR.joinpath(name)
AsUri(name) == PyStr("file://" \o COMMON_SCHEMA_DIR \o "/" \o name)

\* a memoising variant: the last answer for the same namespace is reused
location_memo(self) ==
    IF call.op = "Namespace.location" /\ call.arg = self
    THEN call.result
    ELSE IF (prefix(self) \o ".xsd") \in files
         THEN AsUri(prefix(self) \o ".xsd")
         ELSE PyNone

location(self) ==
    LET local_path == prefix(self) \o ".xsd"
    IN  IF local_path \in files THEN AsUri(local_path) ELSE PyNone

Namespace_get_enum(uri_) ==
    IF Truthy(uri_) THEN DictGet(STANDARD_NAMESPACES, uri_) ELSE PyNone

NamespaceIndex ==
    DictFromItems([i \in DOMAIN NamespaceMembers |->
                      <<uri(NamespaceMembers[i]), NamespaceMembers[i]>>])

----------------------------------------------------------------------------
(* DataType *)

DataTypeMembers == EnumMembers(DataTypeDecls)

\* isinstance(x, typing.Iterable): a tuple is, a type object is not
IsInstanceIterable(x) == x.t = "tuple"

\* a variant: the kinds joined last to first
local_name_reversed(self) ==
    IF IsInstanceIterable(self.local)
    THEN LET n == Len(self.local.items)
         IN  Join(", ", [i \in 1..n |-> self.local.items[n + 1 - i].name])
    ELSE self.local.name

local_name(self) ==
    IF IsInstanceIterable(self.local)
    THEN Join(", ", [i \in DOMAIN self.local.items |-> self.local.items[i].name])
    ELSE self.local.name

\* a variant: __XSDType__[code] in place of .get(code)
DataType_get_enum_subscript(code) ==
    IF Truthy(code)
    THEN IF code.v \in DOMAIN XSDType THEN XSDType[code.v] ELSE PyRaise("KeyError")
    ELSE PyNone

DataType_get_enum(code) ==
    IF Truthy(code) THEN DictGet(XSDType, code) ELSE PyNone

DataTypeIndex ==
    DictFromItems([i \in DOMAIN DataTypeMembers |->
                      <<DataTypeMembers[i].code, DataTypeMembers[i]>>])

----------------------------------------------------------------------------
(* the auxiliary enumerations, by class name *)

AuxEnums ==
    [FormType |-> FormTypeDecls, Mode |-> ModeDecls, UseType |-> UseTypeDecls,
     ProcessType |-> ProcessTypeDecls, BindingStyle |-> BindingStyleDecls,
     UseChoice |-> UseChoiceDecls]

----------------------------------------------------------------------------
(* the arguments a client passes *)

UriArgs ==
    {PyStr(uri(NamespaceDecls[i])) : i \in DOMAIN NamespaceDecls}
        \cup {PyNone, PyStr(""), PyStr("unregistered:uri"), PyStr("xs"),
              PyStr("http://www.w3.org/2001/xmlschema")}

CodeArgs ==
    {PyStr(DataTypeDecls[i].code) : i \in DOMAIN DataTypeDecls}
        \cup {PyNone, PyStr(""), PyStr("not-a-type"), PyStr("id"), PyStr("Int"),
              PyStr("QMAP")}

WireArgs(decls) ==
    {PyStr(decls[i].value) : i \in DOMAIN decls}
        \cup {PyStr(decls[i].name) : i \in DOMAIN decls}
        \cup {PyNone, PyStr(""), PyStr("bogus")}

----------------------------------------------------------------------------
(* the sequential client: one call at a time, the schema directory changing *)
(* between calls                                                            *)

Call(op, arg, result, fs) == [op |-> op, arg |-> arg, result |-> result, fs |-> fs]

NoCall == Call("none", PyNone, PyNone, {})

NamespaceGetEnum ==
    /\ \E u \in UriArgs : call' = Call("Namespace.get_enum", u, Namespace_get_enum(u), {})
    /\ UNCHANGED <<STANDARD_NAMESPACES, XSDType, files, threads>>

DataTypeGetEnum ==
    /\ \E c \in CodeArgs : call' = Call("DataType.get_enum", c, DataType_get_enum(c), {})
    /\ UNCHANGED <<STANDARD_NAMESPACES, XSDType, files, threads>>

NamespaceLocation ==
    /\ \E i \in DOMAIN NamespaceMembers :
           call' = Call("Namespace.location", NamespaceMembers[i],
                        location(NamespaceMembers[i]), files)
    /\ UNCHANGED <<STANDARD_NAMESPACES, XSDType, files, threads>>

DataTypeLocalName ==
    /\ \E i \in DOMAIN DataTypeMembers :
           call' = Call("DataType.local_name", DataTypeMembers[i],
                        PyStr(local_name(DataTypeMembers[i])), {})
    /\ UNCHANGED <<STANDARD_NAMESPACES, XSDType, files, threads>>

AuxEnumCall ==
    /\ \E cls \in DOMAIN AuxEnums : \E w \in WireArgs(AuxEnums[cls]) :
           call' = Call(cls, w, EnumCall(AuxEnums[cls], w), {})
    /\ UNCHANGED <<STANDARD_NAMESPACES, XSDType, files, threads>>

CreateFile ==
    /\ \E f \in SchemaFileNames \ files : files' = files \cup {f}
    /\ UNCHANGED <<STANDARD_NAMESPACES, XSDType, call, threads>>

DeleteFile ==
    /\ \E f \in files : files' = files \ {f}
    /\ UNCHANGED <<STANDARD_NAMESPACES, XSDType, call, threads>>

----------------------------------------------------------------------------
(* concurrent callers of the two get_enum lookups, one bytecode step at a  *)
(* time: the truth test of the argument, then the dict.get                 *)

NumCallers == 2

Callers == 1..NumCallers

Idle == [pc |-> "idle", op |-> "none", arg |-> PyNone, result |-> PyNone]

ConcUriArgs ==
    {PyStr(uri(NamespaceDecls[i])) : i \in DOMAIN NamespaceDecls}
        \cup {PyNone, PyStr(""), PyStr("unregistered:uri")}

ConcCodeArgs ==
    {PyStr("qmap"), PyStr("ID"), PyStr("int"), PyStr("unsignedShort"),
     PyNone, PyStr(""), PyStr("not-a-type")}

NamespaceInvoke(c) ==
    /\ threads[c].pc = "idle"
    /\ \E u \in ConcUriArgs :
           threads' = [threads EXCEPT ![c] =
               [pc |-> "test", op |-> "Namespace.get_enum", arg |-> u, result |-> PyNone]]
    /\ UNCHANGED <<STANDARD_NAMESPACES, XSDType, files, call>>

DataTypeInvoke(c) ==
    /\ threads[c].pc = "idle"
    /\ \E k \in ConcCodeArgs :
           threads' = [threads EXCEPT ![c] =
               [pc |-> "test", op |-> "DataType.get_enum", arg |-> k, result |-> PyNone]]
    /\ UNCHANGED <<STANDARD_NAMESPACES, XSDType, files, call>>

\* "... if uri else None"
TestArg(c) ==
    /\ threads[c].pc = "test"
    /\ threads' = [threads EXCEPT ![c].pc = IF Truthy(threads[c].arg) THEN "get" ELSE "done"]
    /\ UNCHANGED <<STANDARD_NAMESPACES, XSDType, files, call>>

\* a variant that takes the entry out of the table
NamespaceTableGet_pop(c) ==
    /\ threads[c].pc = "get"
    /\ threads[c].op = "Namespace.get_enum"
    /\ threads' = [threads EXCEPT ![c].pc = "done",
                                  ![c].result = DictGet(STANDARD_NAMESPACES, threads[c].arg)]
    /\ STANDARD_NAMESPACES' = DictWithout(STANDARD_NAMESPACES, threads[c].arg)
    /\ UNCHANGED <<XSDType, files, call>>

\* __STANDARD_NAMESPACES__.get(uri)
NamespaceTableGet(c) ==
    /\ threads[c].pc = "get"
    /\ threads[c].op = "Namespace.get_enum"
    /\ threads' = [threads EXCEPT ![c].pc = "done",
                                  ![c].result = DictGet(STANDARD_NAMESPACES, threads[c].arg)]
    /\ UNCHANGED <<STANDARD_NAMESPACES, XSDType, files, call>>

\* __XSDType__.get(code)
DataTypeTableGet(c) ==
    /\ threads[c].pc = "get"
    /\ threads[c].op = "DataType.get_enum"
    /\ threads' = [threads EXCEPT ![c].pc = "done",
                                  ![c].result = DictGet(XSDType, threads[c].arg)]
    /\ UNCHANGED <<STANDARD_NAMESPACES, XSDType, files, call>>

\* the caller takes the result and is free to call again
Return(c) ==
    /\ threads[c].pc = "done"
    /\ threads' = [threads EXCEPT ![c] = Idle]
    /\ UNCHANGED <<STANDARD_NAMESPACES, XSDType, files, call>>

----------------------------------------------------------------------------
(* the specifications *)

\* the state once the module is imported: both reverse indexes built
Init ==
    /\ STANDARD_NAMESPACES = NamespaceIndex
    /\ XSDType = DataTypeIndex
    /\ files = SchemaFileNames
    /\ call = NoCall
    /\ threads = [c \in Callers |-> Idle]

\* the lookups and conversions of a single client
Next ==
    \/ NamespaceGetEnum
    \/ DataTypeGetEnum
    \/ DataTypeLocalName
    \/ AuxEnumCall

Spec == Init /\ [][Next]_vars

\* the bundled-schema lookup while the schema directory changes
NextFs ==
    \/ NamespaceLocation
    \/ CreateFile
    \/ DeleteFile

SpecFs == Init /\ [][NextFs]_vars

NextConc ==
    \E c \in Callers :
        \/ NamespaceInvoke(c)
        \/ DataTypeInvoke(c)
        \/ TestArg(c)
        \/ NamespaceTableGet(c)
        \/ DataTypeTableGet(c)
        \/ Return(c)

SpecConc == Init /\ [][NextConc]_vars

----------------------------------------------------------------------------
(* the properties *)

NamespaceNames == {"XS", "XML", "XSI", "XLINK", "XHTML", "SOAP11", "SOAP12"}

RegisteredUris == {PyStr(uri(NamespaceDecls[i])) : i \in DOMAIN NamespaceDecls}

RegisteredCodes == {PyStr(DataTypeDecls[i].code) : i \in DOMAIN DataTypeDecls}

\* C1: for every member ns of Namespace (XS, XML, XSI, XLINK, XHTML, SOAP11,
\* SOAP12), get_enum(ns.uri) is ns; no two members share a uri, and the
\* reverse index holds one key per member.
NamespaceRoundTrip ==
    /\ {Join("", NamespaceDecls[i].name) : i \in DOMAIN NamespaceDecls} = NamespaceNames
    /\ \A i \in DOMAIN NamespaceDecls :
           Namespace_get_enum(PyStr(uri(NamespaceDecls[i]))) = NamespaceDecls[i]
    /\ \A i, j \in DOMAIN NamespaceDecls :
           i # j => uri(NamespaceDecls[i]) # uri(NamespaceDecls[j])
    /\ Cardinality(DOMAIN STANDARD_NAMESPACES) = Cardinality(NamespaceNames)
    /\ (call.op = "Namespace.get_enum" /\ call.arg \in RegisteredUris)
           => /\ \E i \in DOMAIN NamespaceDecls : call.result = NamespaceDecls[i]
              /\ PyStr(uri(call.result)) = call.arg

\* a lookup of the last declared namespace's uri has returned that member
NamespaceRoundTripSeen ==
    /\ call.op = "Namespace.get_enum"
    /\ call.arg = PyStr("http://schemas.xmlsoap.org/wsdl/soap12/")
    /\ call.result = Namespace_SOAP12

\* C2: for every member d of DataType, get_enum(d.code) is d; the codes are
\* pairwise distinct, case-sensitively ("ID", "IDREF", "IDREFS", "int",
\* "integer" are five keys), and the reverse index holds one key per member.
DataTypeRoundTrip ==
    /\ \A i \in DOMAIN DataTypeDecls :
           DataType_get_enum(PyStr(DataTypeDecls[i].code)) = DataTypeDecls[i]
    /\ \A i, j \in DOMAIN DataTypeDecls :
           i # j => DataTypeDecls[i].code # DataTypeDecls[j].code
    /\ Cardinality(DOMAIN XSDType) = Len(DataTypeDecls)
    /\ Cardinality({DataType_get_enum(PyStr(k)) :
                       k \in {"ID", "IDREF", "IDREFS", "int", "integer"}}
                   \ {PyNone}) = 5
    /\ (call.op = "DataType.get_enum" /\ call.arg \in RegisteredCodes)
           => /\ \E i \in DOMAIN DataTypeDecls : call.result = DataTypeDecls[i]
              /\ PyStr(call.result.code) = call.arg

\* a lookup of "integer" has returned INTEGER, not INT
DataTypeRoundTripSeen ==
    /\ call.op = "DataType.get_enum"
    /\ call.arg = PyStr("integer")
    /\ call.result = DataType_INTEGER
    /\ call.result # DataType_INT

\* C3: a get_enum miss is the value None and never an exception: None, ""
\* and any unregistered string give None, and no registered uri or code does.
LookupMissIsNone ==
    /\ call.op = "Namespace.get_enum"
           => /\ call.result = PyNone <=> call.arg \notin RegisteredUris
              /\ call.result # PyNone
                     => call.result \in {NamespaceDecls[i] : i \in DOMAIN NamespaceDecls}
    /\ call.op = "DataType.get_enum"
           => /\ call.result = PyNone <=> call.arg \notin RegisteredCodes
              /\ call.result # PyNone
                     => call.result \in {DataTypeDecls[i] : i \in DOMAIN DataTypeDecls}

\* an unregistered code has been looked up and answered with None
LookupMissSeen ==
    /\ call.op = "DataType.get_enum"
    /\ call.arg = PyStr("not-a-type")
    /\ call.result = PyNone

\* the wire values of an auxiliary enumeration's variants
WireValues(cls) == {PyStr(AuxEnums[cls][i].value) : i \in DOMAIN AuxEnums[cls]}

NumericPolicy ==
    [decimal |-> Decimal, double |-> Decimal, float |-> float, boolean |-> bool,
     byte |-> int, short |-> int, int |-> int, long |-> int, integer |-> int,
     negativeInteger |-> int, nonNegativeInteger |-> int,
     nonPositiveInteger |-> int, positiveInteger |-> int, unsignedByte |-> int,
     unsignedShort |-> int, unsignedInt |-> int, unsignedLong |-> int]

\* C5: "decimal" and "double" map to Decimal, "float" to float, "boolean" to
\* bool, and every integer-family code to int.
NumericKinds ==
    /\ \A k \in DOMAIN NumericPolicy :
           /\ k \in DOMAIN XSDType
           /\ DataType_get_enum(PyStr(k)).local = NumericPolicy[k]
    /\ (call.op = "DataType.get_enum" /\ call.arg.t = "str"
            /\ call.arg.v \in DOMAIN NumericPolicy)
           => /\ call.result # PyNone
              /\ call.result.local = NumericPolicy[call.arg.v]

\* "double" has been looked up and its entry carries Decimal, not float
NumericKindsSeen ==
    /\ call.op = "DataType.get_enum"
    /\ call.arg = PyStr("double")
    /\ call.result.local = Decimal
    /\ call.result.local # float

\* C6 as stated: "ID", "IDREF" and "ENTITY" each map to the int kind, not str.
ReferenceCodesAreInt ==
    (call.op = "DataType.get_enum"
        /\ call.arg \in {PyStr("ID"), PyStr("IDREF"), PyStr("ENTITY")})
        => /\ call.result # PyNone
           /\ call.result.local = int
           /\ call.result.local # str

\* C6 as amended: of the reference-like codes, "ENTITY" maps to the int kind,
\* distinct from str, while "ID" and "IDREF" map to the plain str kind.
ReferenceCodeKinds ==
    /\ DataType_get_enum(PyStr("ENTITY")).local = int
    /\ DataType_get_enum(PyStr("ID")).local = str
    /\ DataType_get_enum(PyStr("IDREF")).local = str
    /\ int # str
    /\ (call.op = "DataType.get_enum"
            /\ call.arg \in {PyStr("ID"), PyStr("IDREF"), PyStr("ENTITY")})
           => /\ call.result # PyNone
              /\ call.result.local = IF call.arg = PyStr("ENTITY") THEN int ELSE str

\* "ID" has been looked up and its entry carries str
ReferenceCodeKindsSeen ==
    /\ call.op = "DataType.get_enum"
    /\ call.arg = PyStr("ID")
    /\ call.result # PyNone
    /\ call.result.local = str

\* the built-in datatype names of W3C XML Schema 1.0/1.1 Part 2: the ur-types,
\* the primitive types and the derived types
XsdBuiltinNames ==
    {"anyType", "anySimpleType", "anyAtomicType",
     "string", "boolean", "decimal", "float", "double", "duration", "dateTime",
     "time", "date", "gYearMonth", "gYear", "gMonthDay", "gDay", "gMonth",
     "hexBinary", "base64Binary", "anyURI", "QName", "NOTATION",
     "normalizedString", "token", "language", "NMTOKEN", "NMTOKENS", "Name",
     "NCName", "ID", "IDREF", "IDREFS", "ENTITY", "ENTITIES", "integer",
     "nonPositiveInteger", "negativeInteger", "long", "int", "short", "byte",
     "nonNegativeInteger", "unsignedLong", "unsignedInt", "unsignedShort",
     "unsignedByte", "positiveInteger", "yearMonthDuration", "dayTimeDuration",
     "dateTimeStamp"}

SyntheticCodes == {"qmap", "object"}

\* codes of the xml namespace and of the schema for schemas
OtherCodes == {"base", "lang", "derivationControl", "simpleDerivationSet"}

\* C7 as stated: the registered codes are exactly the XSD built-in type names,
\* each once, plus "qmap" and "object": none missing, none duplicated, no other.
CodesAreBuiltinsPlusTwo ==
    (call.op = "DataType.get_enum" /\ call.arg.t = "str")
        => /\ call.result # PyNone
                  <=> call.arg.v \in XsdBuiltinNames \cup SyntheticCodes
           /\ Cardinality({i \in DOMAIN DataTypeDecls :
                               DataTypeDecls[i].code = call.arg.v}) <= 1

\* C7 as amended: the registered codes are exactly the XSD built-in type names,
\* each once, plus "qmap" and "object", plus the four codes "base", "lang",
\* "derivationControl" and "simpleDerivationSet", which are not built-in type
\* names: no built-in name is missing and none is duplicated.
CodesAreBuiltinsPlusSix ==
    /\ DOMAIN XSDType = XsdBuiltinNames \cup SyntheticCodes \cup OtherCodes
    /\ OtherCodes \cap (XsdBuiltinNames \cup SyntheticCodes) = {}
    /\ Len(DataTypeDecls) = Cardinality(DOMAIN XSDType)
    /\ \A k \in XsdBuiltinNames :
           Cardinality({i \in DOMAIN DataTypeDecls : DataTypeDecls[i].code = k}) = 1
    /\ (call.op = "DataType.get_enum" /\ call.result # PyNone)
           => call.arg.v \in XsdBuiltinNames \cup SyntheticCodes \cup OtherCodes

\* "derivationControl", no built-in type name, has been looked up and found
OtherCodeSeen ==
    /\ call.op = "DataType.get_enum"
    /\ call.arg = PyStr("derivationControl")
    /\ call.result = DataType_DERIVATION_CONTROL

\* C8: local_name is the kind's name for an entry with one kind, and the kind
\* names joined by ", " in declaration order for an entry with several: for
\* QMAP "QName, str"; no entry with one kind (str and object included) is
\* treated as having several.
LocalNameLabel ==
    call.op = "DataType.local_name"
        => /\ call.arg.local.t = "type" => call.result = PyStr(call.arg.local.name)
           /\ call.arg.local.t = "tuple" => call.arg = DataType_QMAP
           /\ call.arg = DataType_QMAP => call.result = PyStr("QName, str")
           /\ call.arg.local \in {str, object}
                  => call.result \in {PyStr("str"), PyStr("object")}

\* local_name of QMAP has been read
LocalNameQmapSeen ==
    /\ call.op = "DataType.local_name"
    /\ call.arg.name = "QMAP"
    /\ call.result = PyStr("QName, str")

\* the result of a get_enum call made alone, straight after the import
Alone(op, arg) ==
    IF arg \in RegisteredUris /\ op = "Namespace.get_enum"
    THEN CHOOSE m \in {NamespaceDecls[i] : i \in DOMAIN NamespaceDecls} : PyStr(uri(m)) = arg
    ELSE IF arg \in RegisteredCodes /\ op = "DataType.get_enum"
    THEN CHOOSE m \in {DataTypeDecls[i] : i \in DOMAIN DataTypeDecls} : PyStr(m.code) = arg
    ELSE PyNone

\* C9: once the indexes are built, under any interleaving of the get_enum
\* calls of any number of callers each call returns what it returns made
\* alone, and both tables stay as built: no lookup writes to them.
ConcurrentLookupsAsAlone ==
    /\ STANDARD_NAMESPACES = NamespaceIndex
    /\ XSDType = DataTypeIndex
    /\ \A c \in Callers :
           threads[c].pc = "done"
               => threads[c].result = Alone(threads[c].op, threads[c].arg)

\* two callers have looked up the same registered uri at the same time and
\* both hold the member
ConcurrentLookupsSeen ==
    \E c, d \in Callers :
        /\ c # d
        /\ threads[c].pc = "done"
        /\ threads[d].pc = "done"
        /\ threads[c].op = "Namespace.get_enum"
        /\ threads[c].arg = PyStr(uri(Namespace_XSI))
        /\ threads[d].arg = threads[c].arg
        /\ threads[c].result = Namespace_XSI
        /\ threads[d].result = Namespace_XSI

\* the file each namespace's bundled schema is kept in
BundledFile ==
    [XS |-> "xs.xsd", XML |-> "xml.xsd", XSI |-> "xsi.xsd", XLINK |-> "xlink.xsd",
     XHTML |-> "xhtml.xsd", SOAP11 |-> "soap11.xsd", SOAP12 |-> "soap12.xsd"]

\* C10: location is evaluated against the schema directory on every call and
\* never cached: whatever files were created and deleted before, a call returns
\* the resource URI of "<prefix>.xsd" if and only if that file exists at the
\* moment of the call, and None, not an error, when it does not; only the file
\* named after the namespace's own prefix matters.
LocationFollowsFiles ==
    call.op = "Namespace.location"
        => LET f == BundledFile[Join("", call.arg.name)]
           IN  call.result = IF f \in call.fs
                             THEN PyStr("file:///xsdata/schemas/" \o f)
                             ELSE PyNone

\* a call answered None while the file was absent, the file created since, and
\* other bundled files present at the call
LocationNoneSeen ==
    /\ call.op = "Namespace.location"
    /\ call.arg = Namespace_XSI
    /\ call.result = PyNone
    /\ "xsi.xsd" \in files
    /\ "xs.xsd" \in call.fs

====
